---- MODULE Spec2Model ----
(***************************************************************************)
(* kopia-exporter: the poll loop that republishes kopia snapshot reports   *)
(* as Prometheus gauges (src/src/kopia_exporter/__init__.py), the          *)
(* timestamp parser it uses, and the snapshot / update_and_push path that  *)
(* the tests exercise (src/tests/test_init.py).                            *)
(*                                                                         *)
(* Text is modelled as a sequence of one-character strings, a datetime as  *)
(* [ord, sod, us] (proleptic ordinal day, second of the day, microsecond), *)
(* a timedelta as Python normalises it, [days, seconds, microseconds], and *)
(* a float gauge value as <<whole, microseconds>>.                         *)
(***************************************************************************)
EXTENDS Integers, Sequences, FiniteSets, TLC

VARIABLES
    \* serve mode (main)
    pc,         \* position of the main thread in main()
    cycle,      \* number of refresh_data calls made so far
    data,       \* the list refresh_data returned (None when JSON decoding failed)
    idx,        \* 1-based position of the entry the for loop is at
    loc,        \* the locals of the loop body (host .. end_time)
    gi,         \* which of the seven gauge statements is executing
    registered, \* the gauge names registered in the default registry, in order
    registry,   \* the default registry's samples: gauge -> (label key -> value)
    error,      \* the exception that left main(), or None
    pre,        \* history: the registry when the current entry's update began
    observed,   \* what the scrape thread read last: [gauge, key, value]
    \* snapshot command and update_and_push
    spc,        \* position in the snapshot command
    runs,       \* snapshot invocations made by this process
    opts,       \* the options of the running invocation
    calls,      \* the subprocess.run calls of the running invocation, in order
    created,    \* the report the backup create printed
    iso,        \* the isolated registry of the running update_and_push, or None
    pushCalls,  \* the update_and_push calls of the running invocation
    gateway,    \* what the push gateway holds for the job
    exitCode,   \* exit status of the last finished invocation
    \* to_struct_time alone
    ts,         \* the timestamp text handed to to_struct_time
    parsed      \* its result

vars == <<pc, cycle, data, idx, loc, gi, registered, registry, error, pre, observed,
          spc, runs, opts, calls, created, iso, pushCalls, gateway, exitCode,
          ts, parsed>>

serveVars == <<pc, cycle, data, idx, loc, gi, registered, registry, error, pre, observed>>

snapVars == <<spc, runs, opts, calls, created, iso, pushCalls, gateway, exitCode>>

parseVars == <<ts, parsed>>

None == "None"

(***************************************************************************)
(* Text                                                                    *)
(***************************************************************************)
DigitChars == <<"0", "1", "2", "3", "4", "5", "6", "7", "8", "9">>

IsDigit(c) == \E i \in 1..10 : DigitChars[i] = c

DigitVal(c) == (CHOOSE i \in 1..10 : DigitChars[i] = c) - 1

AllDigits(s) == \A i \in 1..Len(s) : IsDigit(s[i])

\* int() of a string of digits
RECURSIVE DigitsValue(_)
DigitsValue(s) ==
    IF s = <<>> THEN 0
    ELSE 10 * DigitsValue(SubSeq(s, 1, Len(s) - 1)) + DigitVal(s[Len(s)])

\* Position of the first c in s at or after position from; 0 when there is none.
IndexFrom(s, c, from) ==
    IF \E i \in from..Len(s) : s[i] = c
    THEN CHOOSE i \in from..Len(s) : s[i] = c /\ \A j \in from..(i - 1) : s[j] # c
    ELSE 0

\* Python's ts[:-n]
DropLast(s, n) == IF Len(s) <= n THEN <<>> ELSE SubSeq(s, 1, Len(s) - n)

\* Zero-padded decimal text of n, w characters wide (how kopia prints a field).
RECURSIVE Pad(_, _)
Pad(n, w) == IF w = 0 THEN <<>> ELSE Pad(n \div 10, w - 1) \o <<DigitChars[(n % 10) + 1]>>

RECURSIVE DigitText(_)
DigitText(ds) ==
    IF ds = <<>> THEN <<>> ELSE <<DigitChars[Head(ds) + 1]>> \o DigitText(Tail(ds))

(***************************************************************************)
(* datetime                                                                *)
(***************************************************************************)
SecondsPerDay == 86400

MicrosPerSecond == 1000000

IsLeap(y) == (y % 4 = 0) /\ ((y % 100 # 0) \/ (y % 400 = 0))

DaysInMonth(y, m) ==
    IF m = 2 THEN (IF IsLeap(y) THEN 29 ELSE 28)
    ELSE IF m \in {4, 6, 9, 11} THEN 30 ELSE 31

RECURSIVE DaysBeforeMonth(_, _)
DaysBeforeMonth(y, m) ==
    IF m = 1 THEN 0 ELSE DaysBeforeMonth(y, m - 1) + DaysInMonth(y, m - 1)

\* datetime.toordinal(): 1 for 0001-01-01
Ordinal(y, m, d) ==
    LET y1 == y - 1
    IN  y1 * 365 + (y1 \div 4) - (y1 \div 100) + (y1 \div 400) + DaysBeforeMonth(y, m) + d

EpochOrdinal == Ordinal(1970, 1, 1)

ValueError == [ok |-> FALSE]

\* One numeric field of strptime: lo..hi digits, value within vmin..vmax.
FieldOk(f, lo, hi, vmin, vmax) ==
    /\ Len(f) \in lo..hi
    /\ AllDigits(f)
    /\ DigitsValue(f) \in vmin..vmax

\* %f: one to six digits, read as a fraction of a second (right-padded with zeros)
RECURSIVE FractionMicros(_)
FractionMicros(f) == IF Len(f) >= 6 THEN DigitsValue(f) ELSE FractionMicros(f \o <<"0">>)

\* datetime.strptime(s, "%Y-%m-%dT%H:%M:%S.%f"): the datetime, or ValueError
Strptime(s) ==
    LET p1 == IndexFrom(s, "-", 1)
        p2 == IF p1 = 0 THEN 0 ELSE IndexFrom(s, "-", p1 + 1)
        p3 == IF p2 = 0 THEN 0 ELSE IndexFrom(s, "T", p2 + 1)
        p4 == IF p3 = 0 THEN 0 ELSE IndexFrom(s, ":", p3 + 1)
        p5 == IF p4 = 0 THEN 0 ELSE IndexFrom(s, ":", p4 + 1)
        p6 == IF p5 = 0 THEN 0 ELSE IndexFrom(s, ".", p5 + 1)
    IN  IF p6 = 0 THEN ValueError
        ELSE
        LET Y == SubSeq(s, 1, p1 - 1)
            m == SubSeq(s, p1 + 1, p2 - 1)
            d == SubSeq(s, p2 + 1, p3 - 1)
            H == SubSeq(s, p3 + 1, p4 - 1)
            M == SubSeq(s, p4 + 1, p5 - 1)
            S == SubSeq(s, p5 + 1, p6 - 1)
            f == SubSeq(s, p6 + 1, Len(s))
        IN  IF /\ FieldOk(Y, 4, 4, 1, 9999)
               /\ FieldOk(m, 1, 2, 1, 12)
               /\ FieldOk(d, 1, 2, 1, 31)
               /\ DigitsValue(d) <= DaysInMonth(DigitsValue(Y), DigitsValue(m))
               /\ FieldOk(H, 1, 2, 0, 23)
               /\ FieldOk(M, 1, 2, 0, 59)
               /\ FieldOk(S, 1, 2, 0, 59)
               /\ FieldOk(f, 1, 6, 0, MicrosPerSecond - 1)
            THEN [ok  |-> TRUE,
                  ord |-> Ordinal(DigitsValue(Y), DigitsValue(m), DigitsValue(d)),
                  sod |-> DigitsValue(H) * 3600 + DigitsValue(M) * 60 + DigitsValue(S),
                  us  |-> FractionMicros(f)]
            ELSE ValueError

\* to_struct_time(ts): the last four characters are cut off before parsing
to_struct_time(t) == Strptime(DropLast(t, 4))

\* end_time - start_time: a timedelta, normalised as Python does
Subtract(a, b) ==
    LET du == a.us - b.us
        s  == (a.sod - b.sod) + (du \div MicrosPerSecond)
    IN  [days         |-> (a.ord - b.ord) + (s \div SecondsPerDay),
         seconds      |-> s % SecondsPerDay,
         microseconds |-> du % MicrosPerSecond]

\* datetime.timestamp() of a UTC datetime: (self - _EPOCH).total_seconds()
Timestamp(a) == <<(a.ord - EpochOrdinal) * SecondsPerDay + a.sod, a.us>>

\* float(n) of an integer
Float(n) == <<n, 0>>

(***************************************************************************)
(* Reports: what "kopia snapshot list --json" prints, decoded              *)
(***************************************************************************)
MaxCycles == 2

MaxEntries == 2

\* A kopia timestamp: RFC 3339 in UTC; kopia prints as many fraction digits as the
\* instant needs (none, and no point, when the fraction is zero).
Stamp(y, m, d, H, M, S, frac) ==
    Pad(y, 4) \o <<"-">> \o Pad(m, 2) \o <<"-">> \o Pad(d, 2) \o <<"T">> \o
    Pad(H, 2) \o <<":">> \o Pad(M, 2) \o <<":">> \o Pad(S, 2) \o
    (IF frac = <<>> THEN <<>> ELSE <<".">> \o DigitText(frac)) \o <<"Z">>

StartA == Stamp(2024, 8, 19, 5, 17, 21, <<2, 0, 2, 5, 5, 7, 0, 1, 1>>)

EndA == Stamp(2024, 8, 19, 5, 17, 58, <<5, 2, 8, 0, 5, 4, 8, 5, 5>>)

EndNextDay == Stamp(2024, 8, 20, 5, 17, 58, <<5, 2, 8, 0, 5, 4, 8, 5, 5>>)

StartMicro == Stamp(2024, 9, 1, 8, 55, 44, <<9, 0, 3, 6, 8, 6>>)

EndTenths == Stamp(2024, 9, 1, 8, 55, 45, <<5>>)

SourceX == [host |-> "freenas", userName |-> "root", path |-> "/mnt/x"]

SourceY == [host |-> "freenas", userName |-> "root", path |-> "/mnt/y"]

Report(src, start, end, size, files, dirs, errors) ==
    [source    |-> src,
     startTime |-> start,
     endTime   |-> end,
     stats     |-> [totalSize |-> size, fileCount |-> files,
                    dirCount |-> dirs, errorCount |-> errors]]

\* d without key k (a JSON object that lacks the field)
Without(d, k) == [f \in DOMAIN d \ {k} |-> d[f]]

SourceFields == {"host", "path", "userName"}

StatsFields == {"totalSize", "fileCount", "dirCount", "errorCount"}

\* Reports the code processes to the end
CompleteReports ==
    { Report(SourceX, StartA, EndA, 100, 2, 1, 0),
      Report(SourceX, StartA, EndNextDay, 200, 3, 2, 1),
      Report(SourceY, EndA, StartA, 277, 1, 1, 0) }

\* Reports lacking one required field, and one whose endTime has a single
\* fraction digit
BrokenReports ==
    LET r == Report(SourceX, StartA, EndA, 100, 2, 1, 0)
    IN  { [r EXCEPT !.source = Without(r.source, f)] : f \in SourceFields }
        \cup { [r EXCEPT !.stats = Without(r.stats, f)] : f \in StatsFields }
        \cup { Report(SourceY, StartMicro, EndTenths, 300, 5, 2, 0) }

Reports == CompleteReports \cup BrokenReports

RECURSIVE ListsUpTo(_, _)
ListsUpTo(S, n) ==
    IF n = 0 THEN {<<>>}
    ELSE LET shorter == ListsUpTo(S, n - 1)
         IN  shorter \cup { Append(l, x) : l \in shorter, x \in S }

\* What refresh_data can return: the decoded list, or None when the output of the
\* command is not JSON (the except branch falls off the end of the function).
refresh_data ==
    { [isNone |-> FALSE, list |-> l] : l \in ListsUpTo(Reports, MaxEntries) }
    \cup { [isNone |-> TRUE, list |-> <<>>] }

(***************************************************************************)
(* Gauges                                                                  *)
(***************************************************************************)
GaugeNames ==
    <<"backup_total_size_bytes", "backup_file_count", "backup_dir_count",
      "backup_error_count", "backup_duration_seconds", "backup_start_time",
      "backup_end_time">>

NumGauges == Len(GaugeNames)

NoChildren == [k \in {} |-> Float(0)]

\* The samples of seven Gauge(...) objects, none with a labelled child yet
NewRegistry == [g \in 1..NumGauges |-> NoChildren]

\* Labels, with the gauge's other children dropped first
LabelsAfterClear(reg, g, k) ==
    [reg EXCEPT ![g] = [c \in {k} |-> IF k \in DOMAIN reg[g] THEN reg[g][k] ELSE Float(0)]]

\* gauge.labels(host=, path=, user=): the child for the key, created holding 0.0
\* when the gauge has none yet
Labels(reg, g, k) ==
    IF k \in DOMAIN reg[g] THEN reg
    ELSE [reg EXCEPT ![g] = [c \in DOMAIN reg[g] \cup {k} |->
                                IF c = k THEN Float(0) ELSE reg[g][c]]]

\* child.inc(v) in place of child.set(v)
GaugeInc(reg, g, k, v) == [reg EXCEPT ![g][k] = <<@[1] + v[1], @[2] + v[2]>>]

\* child.set(v)
GaugeSet(reg, g, k, v) == [reg EXCEPT ![g][k] = v]

\* d.get(k, 0) in place of d[k]
GetOrZero(d, k) == [ok |-> TRUE, v |-> IF k \in DOMAIN d THEN d[k] ELSE 0]

\* d[k] of a Python dict: the value, or KeyError
GetItem(d, k) == IF k \in DOMAIN d THEN [ok |-> TRUE, v |-> d[k]] ELSE [ok |-> FALSE]

(***************************************************************************)
(* main(): the poll loop of serve mode                                     *)
(***************************************************************************)
NoLocals == [ok |-> FALSE, err |-> None]

\* Lines 154-166: the reads of the loop body, in order; the first one that fails
\* raises (KeyError from a subscript, ValueError from strptime).
Extract(entry) ==
    LET host        == GetItem(entry.source, "host")
        path        == GetItem(entry.source, "path")
        user        == GetItem(entry.source, "userName")
        total_size  == GetItem(entry.stats, "totalSize")
        file_count  == GetItem(entry.stats, "fileCount")
        dir_count   == GetItem(entry.stats, "dirCount")
        error_count == GetItem(entry.stats, "errorCount")
    IN  IF ~host.ok \/ ~path.ok \/ ~user.ok THEN [ok |-> FALSE, err |-> "KeyError"]
        ELSE IF ~total_size.ok \/ ~file_count.ok \/ ~dir_count.ok \/ ~error_count.ok
        THEN [ok |-> FALSE, err |-> "KeyError"]
        ELSE
        LET start_time == to_struct_time(entry.startTime)
            end_time   == to_struct_time(entry.endTime)
        IN  IF ~start_time.ok \/ ~end_time.ok THEN [ok |-> FALSE, err |-> "ValueError"]
            ELSE [ok          |-> TRUE,
                  host        |-> host.v,
                  path        |-> path.v,
                  user        |-> user.v,
                  total_size  |-> total_size.v,
                  file_count  |-> file_count.v,
                  dir_count   |-> dir_count.v,
                  error_count |-> error_count.v,
                  start_time  |-> start_time,
                  end_time    |-> end_time,
                  duration    |-> Subtract(end_time, start_time).seconds]

\* The label values of lines 169-179
Key(l) == <<l.host, l.path, l.user>>

\* What the g-th gauge statement passes to set()
GaugeValue(l, g) ==
    CASE g = 1 -> Float(l.total_size)
      [] g = 2 -> Float(l.file_count)
      [] g = 3 -> Float(l.dir_count)
      [] g = 4 -> Float(l.error_count)
      [] g = 5 -> Float(l.duration)
      [] g = 6 -> Timestamp(l.start_time)
      [] g = 7 -> Timestamp(l.end_time)

NothingObserved == [gauge |-> 0, key |-> <<>>, value |-> Float(0)]

ServeInit ==
    /\ pc = "refresh"
    /\ cycle = 0
    /\ data = [isNone |-> FALSE, list |-> <<>>]
    /\ idx = 0
    /\ loc = NoLocals
    /\ gi = 0
    /\ registered = GaugeNames
    /\ registry = NewRegistry
    /\ error = None
    /\ pre = NewRegistry
    /\ observed = NothingObserved

\* An exception leaves main(): click reports it and the process ends.
Raise(e) ==
    /\ pc' = "exit"
    /\ error' = e

\* data = refresh_data(config_file)
Refresh ==
    /\ pc = "refresh"
    /\ cycle < MaxCycles
    /\ \E d \in refresh_data : data' = d
    /\ cycle' = cycle + 1
    /\ idx' = 0
    /\ pc' = "for"
    /\ UNCHANGED <<loc, gi, registered, registry, error, pre, observed, snapVars, parseVars>>

\* for entry in data, when data is None
IterateNone ==
    /\ pc = "for"
    /\ data.isNone
    /\ Raise("TypeError")
    /\ UNCHANGED <<cycle, data, idx, loc, gi, registered, registry, pre, observed, snapVars, parseVars>>

\* The next entry of the loop and the reads of the loop body (lines 152-166)
NextEntry ==
    /\ pc = "for"
    /\ ~data.isNone
    /\ idx < Len(data.list)
    /\ idx' = idx + 1
    /\ LET l == Extract(data.list[idx + 1])
       IN  IF l.ok
           THEN /\ loc' = l
                /\ gi' = 1
                /\ pc' = "labels"
                /\ pre' = registry
                /\ UNCHANGED error
           ELSE /\ Raise(l.err)
                /\ UNCHANGED <<loc, gi, pre>>
    /\ UNCHANGED <<cycle, data, registered, registry, observed, snapVars, parseVars>>

\* The list is exhausted
EndFor ==
    /\ pc = "for"
    /\ ~data.isNone
    /\ idx = Len(data.list)
    /\ pc' = "sleep"
    /\ UNCHANGED <<cycle, data, idx, loc, gi, registered, registry, error, pre, observed, snapVars, parseVars>>

\* <gauge>.labels(host=host, path=path, user=user) of statement gi
CallLabels ==
    /\ pc = "labels"
    /\ registry' = Labels(registry, gi, Key(loc))
    /\ pc' = "set"
    /\ UNCHANGED <<cycle, data, idx, loc, gi, registered, error, pre, observed, snapVars, parseVars>>

\* .set(value) of statement gi
CallSet ==
    /\ pc = "set"
    /\ registry' = GaugeSet(registry, gi, Key(loc), GaugeValue(loc, gi))
    /\ IF gi < NumGauges
       THEN gi' = gi + 1 /\ pc' = "labels"
       ELSE gi' = gi /\ pc' = "for"
    /\ UNCHANGED <<cycle, data, idx, loc, registered, error, pre, observed, snapVars, parseVars>>

\* time.sleep(600)
Sleep ==
    /\ pc = "sleep"
    /\ pc' = "refresh"
    /\ UNCHANGED <<cycle, data, idx, loc, gi, registered, registry, error, pre, observed, snapVars, parseVars>>

\* The HTTP thread started by start_http_server collects one sample
Scrape ==
    /\ pc # "exit"
    /\ \E g \in 1..NumGauges : \E k \in DOMAIN registry[g] :
          observed' = [gauge |-> g, key |-> k, value |-> registry[g][k]]
    /\ UNCHANGED <<pc, cycle, data, idx, loc, gi, registered, registry, error, pre, snapVars, parseVars>>

(***************************************************************************)
(* The snapshot command and update_and_push.  Their code is not among the  *)
(* sources; they are modelled from the specification (sections 3, 4.2, 7)  *)
(* and from what tests/test_init.py expects of them.                       *)
(***************************************************************************)
MaxRuns == 2

NoOptions == [zfs |-> FALSE, override |-> FALSE]

NoReport == [isNone |-> TRUE]

NoIsolated == [live |-> FALSE, shared |-> FALSE, names |-> <<>>, children |-> NewRegistry]

ZfsSnapshotCmd == "zfs snapshot zfs_snapshot"

ZfsDestroyCmd == "zfs destroy zfs_snapshot"

CreateCmd(o) ==
    IF o.override
    THEN "kopia snapshot create --json --override-source /override/path /path/to/snapshot"
    ELSE "kopia snapshot create --json /path/to/snapshot"

\* Where the command starts
FirstStep(o) == IF o.zfs THEN "zfs_snapshot" ELSE "create"

AfterCreateNoDestroy(o) == "push"

\* Where the command goes once the backup create has succeeded
AfterCreate(o) == IF o.zfs THEN "zfs_destroy" ELSE "push"

SharedRegistry(names, children) ==
    [live |-> TRUE, shared |-> TRUE, names |-> names, children |-> children]

\* The registry update_and_push builds its gauges in: a fresh one, whatever the
\* process-wide default registry (names, children) holds
IsolatedRegistry(names, children) ==
    [live |-> TRUE, shared |-> FALSE, names |-> <<>>, children |-> NewRegistry]

\* update(report): the seven gauge statements, one after the other
RECURSIVE UpdateFrom(_, _, _)
UpdateFrom(reg, l, g) ==
    IF g > NumGauges THEN reg
    ELSE UpdateFrom(GaugeSet(Labels(reg, g, Key(l)), g, Key(l), GaugeValue(l, g)), l, g + 1)

Update(reg, l) == UpdateFrom(reg, l, 1)

snapFrame == <<pc, cycle, data, idx, loc, gi, pre, observed, ts, parsed>>

\* The invocation ends with an error: a message and a non-zero exit status
Fail(e) ==
    /\ error' = e
    /\ exitCode' = 1
    /\ spc' = "idle"
    /\ runs' = runs + 1

\* main(["snapshot", path, ...]) is invoked
Invoke ==
    /\ spc = "idle"
    /\ runs < MaxRuns
    /\ \E z \in BOOLEAN, o \in BOOLEAN :
          /\ opts' = [zfs |-> z, override |-> o]
          /\ spc' = FirstStep(opts')
    /\ calls' = <<>>
    /\ pushCalls' = <<>>
    /\ created' = NoReport
    /\ error' = None
    /\ UNCHANGED <<runs, iso, gateway, exitCode, registered, registry, snapFrame>>

ZfsSnapshot ==
    /\ spc = "zfs_snapshot"
    /\ calls' = Append(calls, ZfsSnapshotCmd)
    /\ \/ spc' = "create" /\ UNCHANGED <<runs, error, exitCode>>
       \/ Fail("CommandError")
    /\ UNCHANGED <<opts, created, iso, pushCalls, gateway, registered, registry, snapFrame>>

KopiaCreate ==
    /\ spc = "create"
    /\ calls' = Append(calls, CreateCmd(opts))
    /\ \/ /\ \E r \in Reports : created' = [isNone |-> FALSE, report |-> r]
          /\ spc' = AfterCreate(opts)
          /\ UNCHANGED <<runs, error, exitCode>>
       \/ Fail("CommandError") /\ UNCHANGED created
    /\ UNCHANGED <<opts, iso, pushCalls, gateway, registered, registry, snapFrame>>

ZfsDestroy ==
    /\ spc = "zfs_destroy"
    /\ calls' = Append(calls, ZfsDestroyCmd)
    /\ \/ spc' = "push" /\ UNCHANGED <<runs, error, exitCode>>
       \/ Fail("CommandError")
    /\ UNCHANGED <<opts, created, iso, pushCalls, gateway, registered, registry, snapFrame>>

\* update_and_push(report, gateway, job), up to the transmission: a registry is
\* built, the seven gauges are registered in it and update runs once.  A report
\* update cannot read ends the invocation, the registry with it.
UpdateAndPush ==
    /\ spc = "push"
    /\ pushCalls' = Append(pushCalls, created.report)
    /\ LET l  == Extract(created.report)
           r0 == IsolatedRegistry(registered, registry)
           r1 == [r0 EXCEPT !.names = r0.names \o GaugeNames]
           r2 == [r1 EXCEPT !.children = Update(r1.children, l)]
       IN  IF l.ok
           THEN /\ iso' = r2
                /\ spc' = "transmit"
                /\ IF r2.shared
                   THEN registered' = r2.names /\ registry' = r2.children
                   ELSE UNCHANGED <<registered, registry>>
                /\ UNCHANGED <<runs, error, exitCode>>
           ELSE /\ Fail(IF l.err = "KeyError" THEN "SchemaError" ELSE "ParseError")
                /\ iso' = NoIsolated
                /\ IF r1.shared
                   THEN registered' = r1.names /\ UNCHANGED registry
                   ELSE UNCHANGED <<registered, registry>>
    /\ UNCHANGED <<opts, calls, created, gateway, snapFrame>>

\* The push: the job's group on the gateway is replaced by the registry's samples,
\* or the gateway cannot be reached.  Either way the registry is dropped.
Transmit ==
    /\ spc = "transmit"
    /\ iso' = NoIsolated
    /\ \/ /\ gateway' = iso.children
          /\ exitCode' = 0
          /\ spc' = "idle"
          /\ runs' = runs + 1
          /\ UNCHANGED error
       \/ Fail("PushError") /\ UNCHANGED gateway
    /\ UNCHANGED <<opts, calls, created, pushCalls, registered, registry, snapFrame>>

SnapInit ==
    /\ spc = "idle"
    /\ runs = 0
    /\ opts = NoOptions
    /\ calls = <<>>
    /\ created = NoReport
    /\ iso = NoIsolated
    /\ pushCalls = <<>>
    /\ gateway = NewRegistry
    /\ exitCode = 0

(***************************************************************************)
(* to_struct_time on its own                                               *)
(***************************************************************************)
MaxFraction == 10

\* The i-th fraction digit of the instants tried
FractionDigit(seed, i) == (seed + 7 * i) % 10

Fraction(seed, n) == [i \in 1..n |-> FractionDigit(seed, i)]

\* Timestamps as kopia prints them, with every fraction width from none to
\* MaxFraction digits, and the same with an offset in place of the Z
TimestampTexts ==
    LET stamps == { Stamp(2024, 8, d, 5, 17, S, Fraction(seed, n)) :
                      d \in {19, 20}, S \in {21, 58}, seed \in {2, 9}, n \in 0..MaxFraction }
    IN  stamps \cup { DropLast(t, 1) \o <<"+", "0", "2", ":", "0", "0">> : t \in stamps }

NotParsed == [done |-> FALSE, result |-> ValueError]

ParseInit ==
    /\ ts \in TimestampTexts
    /\ parsed = NotParsed

ParseIdle ==
    /\ ts = <<>>
    /\ parsed = NotParsed

\* to_struct_time(ts) is called
Parse ==
    /\ ~parsed.done
    /\ ts # <<>>
    /\ parsed' = [done |-> TRUE, result |-> to_struct_time(ts)]
    /\ UNCHANGED <<ts, serveVars, snapVars>>

(***************************************************************************)
(* Specifications                                                          *)
(***************************************************************************)
Init == ServeInit /\ SnapInit /\ ParseIdle

\* Serve mode: the poll loop
Next ==
    \/ Refresh
    \/ IterateNone
    \/ NextEntry
    \/ EndFor
    \/ CallLabels
    \/ CallSet
    \/ Sleep

Spec == Init /\ [][Next]_vars

\* Serve mode with the HTTP thread reading the registry
ScrapeNext ==
    \/ Next
    \/ Scrape

ScrapeSpec == Init /\ [][ScrapeNext]_vars

\* The snapshot command, run up to MaxRuns times by one process
SnapNext ==
    \/ Invoke
    \/ ZfsSnapshot
    \/ KopiaCreate
    \/ ZfsDestroy
    \/ UpdateAndPush
    \/ Transmit

SnapSpec == Init /\ [][SnapNext]_vars

\* to_struct_time applied to one text
ParseAllInit == ServeInit /\ SnapInit /\ ParseInit

ParseSpec == ParseAllInit /\ [][Parse]_vars

(***************************************************************************)
(* What the claims speak of                                                *)
(***************************************************************************)
\* The fraction digits of a timestamp text: what stands between the point and
\* the last character
FractionOf(t) ==
    LET p == IndexFrom(t, ".", 1)
    IN  IF p = 0 THEN <<>> ELSE SubSeq(t, p + 1, Len(t) - 1)

\* The text cut to microsecond precision, without its zone suffix
ToMicros(t) ==
    LET p == IndexFrom(t, ".", 1)
        f == FractionOf(t)
    IN  SubSeq(t, 1, p) \o SubSeq(f, 1, IF Len(f) < 6 THEN Len(f) ELSE 6)

\* t is YYYY-MM-DDTHH:MM:SS.<1 to 9 digits>Z
WellFormed(t) ==
    /\ Len(t) > 0
    /\ t[Len(t)] = "Z"
    /\ Len(FractionOf(t)) \in 1..9
    /\ AllDigits(FractionOf(t))
    /\ Strptime(ToMicros(t)).ok

\* The UTC instant a well-formed text denotes, to the microsecond
Denoted(t) == Strptime(ToMicros(t))

Before(a, b) ==
    \/ a.ord < b.ord
    \/ a.ord = b.ord /\ a.sod < b.sod
    \/ a.ord = b.ord /\ a.sod = b.sod /\ a.us < b.us

\* floor(a - b) in whole seconds
FloorSeconds(a, b) ==
    LET d == Subtract(a, b) IN d.days * SecondsPerDay + d.seconds

HasAllFields(r) == SourceFields \subseteq DOMAIN r.source /\ StatsFields \subseteq DOMAIN r.stats

ValidReport(r) ==
    /\ HasAllFields(r)
    /\ WellFormed(r.startTime)
    /\ WellFormed(r.endTime)
    /\ ~Before(Denoted(r.endTime), Denoted(r.startTime))

NegativeInterval(r) ==
    /\ HasAllFields(r)
    /\ WellFormed(r.startTime)
    /\ WellFormed(r.endTime)
    /\ Before(Denoted(r.endTime), Denoted(r.startTime))

KeyOf(r) == <<r.source.host, r.source.path, r.source.userName>>

\* What the g-th gauge is to hold for a valid report
Expected(r, g) ==
    CASE g = 1 -> Float(r.stats.totalSize)
      [] g = 2 -> Float(r.stats.fileCount)
      [] g = 3 -> Float(r.stats.dirCount)
      [] g = 4 -> Float(r.stats.errorCount)
      [] g = 5 -> Float(FloorSeconds(Denoted(r.endTime), Denoted(r.startTime)))
      [] g = 6 -> Timestamp(Denoted(r.startTime))
      [] g = 7 -> Timestamp(Denoted(r.endTime))

\* The loop has finished the update of entry idx
UpdateDone == pc = "for" /\ idx >= 1

\* The loop is inside the body for entry idx, past its reads
Updating == pc \in {"labels", "set"}

Entry == data.list[idx]

\* C1: once the loop has finished the update for a valid report, the seven gauges
\* at the report's key hold totalSize, fileCount, dirCount, errorCount, the whole
\* seconds of endTime - startTime (floor), and startTime and endTime as unix time.
C1_UpdateStoresReport ==
    (UpdateDone /\ ValidReport(Entry)) =>
        \A g \in 1..NumGauges :
            /\ KeyOf(Entry) \in DOMAIN registry[g]
            /\ registry[g][KeyOf(Entry)] = Expected(Entry, g)

\* C2: an update overwrites.  Every gauge statement already executed for the
\* current entry left at the entry's key the value derived from that entry alone,
\* whatever an earlier report stored there; and while the same report is applied a
\* second time, every gauge keeps the value the first application gave it.
C2_Overwrite ==
    /\ (Updating \/ UpdateDone) =>
          \A g \in 1..NumGauges :
             (g < gi \/ UpdateDone) =>
                 registry[g][Key(loc)] = GaugeValue(Extract(Entry), g)
    /\ ((Updating \/ UpdateDone) /\ idx >= 2 /\ data.list[idx - 1] = Entry) =>
          \A g \in 1..NumGauges : registry[g][Key(loc)] = GaugeValue(Extract(Entry), g)

\* Witness of C2: the second of two different reports with one key has just been
\* applied, and the total size is the second report's, not the first's.
C2_Witness ==
    /\ UpdateDone
    /\ idx = 2
    /\ KeyOf(data.list[1]) = KeyOf(data.list[2])
    /\ data.list[1].stats.totalSize # data.list[2].stats.totalSize
    /\ registry[1][KeyOf(data.list[2])] = Float(data.list[2].stats.totalSize)

\* C3: a step changes a gauge's value only at the key of the entry being updated,
\* creates a child only for that key, and never removes a child.
C3_Isolation ==
    [][\A g \in 1..NumGauges :
          /\ \A k \in DOMAIN registry[g] :
                /\ k \in DOMAIN registry'[g]
                /\ (registry'[g][k] # registry[g][k]) =>
                      (pc = "set" /\ g = gi /\ k = Key(loc))
          /\ \A k \in DOMAIN registry'[g] \ DOMAIN registry[g] :
                pc = "labels" /\ g = gi /\ k = Key(loc)]_vars

\* Witness of C3: a later poll cycle that reported only another key has ended, and
\* the key of the earlier cycle still holds its total size.
C3_Witness ==
    /\ pc = "sleep"
    /\ cycle = 2
    /\ Len(data.list) >= 1
    /\ \A i \in 1..Len(data.list) : KeyOf(data.list[i]) = KeyOf(Report(SourceY, EndA, StartA, 277, 1, 1, 0))
    /\ KeyOf(Report(SourceX, StartA, EndA, 100, 2, 1, 0)) \in DOMAIN registry[1]
    /\ registry[1][KeyOf(Report(SourceX, StartA, EndA, 100, 2, 1, 0))] = Float(100)

\* C4: when the next entry lacks a required field, the step that takes it raises
\* KeyError and leaves every gauge as it was.
C4_MissingFieldFails ==
    [][(pc = "for" /\ ~data.isNone /\ idx < Len(data.list)
            /\ ~HasAllFields(data.list[idx + 1])) =>
          (pc' = "exit" /\ error' = "KeyError" /\ registry' = registry)]_vars

\* Witness of C4: the second entry lacked errorCount; the loop raised, and the key
\* still holds what the first entry stored (error count 1, not a default).
C4_Witness ==
    /\ pc = "exit"
    /\ error = "KeyError"
    /\ idx = 2
    /\ "errorCount" \notin DOMAIN data.list[2].stats
    /\ KeyOf(data.list[1]) \in DOMAIN registry[4]
    /\ registry[4][KeyOf(data.list[1])] = Float(1)

\* C5: an error in a poll cycle does not end the serve-mode process.
C5_ServeSurvivesErrors == error # None => pc # "exit"

\* C8: the loop never gets past the reads of an entry whose endTime is earlier
\* than its startTime: taking such an entry raises, and no duration is stored.
C8_NegativeDurationRejected ==
    (idx >= 1 /\ ~data.isNone /\ NegativeInterval(Entry)) => (pc = "exit" /\ error # None)

\* C9: whatever the scrape thread reads for a gauge and key is the value held
\* there when the current update began, or the value the update assigns.
C9_NoTornRead ==
    [][observed' # observed =>
          LET g == observed'.gauge
              k == observed'.key
              v == observed'.value
          IN  \/ k \in DOMAIN pre[g] /\ v = pre[g][k]
              \/ loc.ok /\ k = Key(loc) /\ v = GaugeValue(loc, g)]_vars

\* C10: to_struct_time returns the instant a well-formed text denotes, whatever
\* the width (1 to 9 digits) of its fraction, and fails for any other text.
C10_ParseAnyWidth ==
    parsed.done =>
        IF WellFormed(ts)
        THEN parsed.result.ok /\ parsed.result = Denoted(ts)
        ELSE ~parsed.result.ok

\* The subprocess.run calls the tests expect of a run in which every command
\* succeeds
ExpectedCalls(o) ==
    IF o.zfs THEN <<ZfsSnapshotCmd, CreateCmd(o), ZfsDestroyCmd>> ELSE <<CreateCmd(o)>>

IsPrefix(a, b) == Len(a) <= Len(b) /\ SubSeq(b, 1, Len(a)) = a

\* The last invocation ran to its end without an error
RunSucceeded == runs >= 1 /\ spc = "idle" /\ exitCode = 0

C7_IsolatedRegistry ==
    /\ registered = GaugeNames
    /\ registry = NewRegistry
    /\ iso.live =>
          /\ iso.names = GaugeNames
          /\ \A g \in 1..NumGauges :
                /\ DOMAIN iso.children[g] = {KeyOf(created.report)}
                /\ iso.children[g][KeyOf(created.report)] =
                       GaugeValue(Extract(created.report), g)
    /\ spc # "transmit" => ~iso.live
    /\ RunSucceeded =>
          \A g \in 1..NumGauges :
             /\ DOMAIN gateway[g] = {KeyOf(created.report)}
             /\ gateway[g][KeyOf(created.report)] = GaugeValue(Extract(created.report), g)

\* Witness of C7: a second call holds its registry while the gateway still has the
\* first call's push for another key, which the second registry does not hold.
C7_Witness ==
    /\ runs = 1
    /\ spc = "transmit"
    /\ iso.live
    /\ \E k \in DOMAIN gateway[1] :
          k # KeyOf(created.report) /\ k \notin DOMAIN iso.children[1]

====
